---- MODULE Spec2Model ----
(***************************************************************************)
(* A model of pyalexs3's OpenAlexParser (src/main.py): the remote catalog  *)
(* functions (__extract_date, __get_start_date, __get_files), the          *)
(* concurrent download batch (__download_files, __copy_data) and the       *)
(* create-or-append table load of load_table.                              *)
(*                                                                         *)
(* Python values are records [ty, v]: ty is the Python type name and v a   *)
(* sequence holding the value.  A date string is the sequence of its       *)
(* digit groups, the groups being joined by "-": "2025-08-04" is           *)
(* <<<<2,0,2,5>>, <<0,8>>, <<0,4>>>> and "" is <<>>.                       *)
(***************************************************************************)
EXTENDS Integers, Sequences, FiniteSets, TLC

\* Bound of the model: load_table calls on the parser instance.
MaxCalls == 2

---------------------------------------------------------------------------
\* Python values

PyNone == [ty |-> "NoneType", v |-> <<>>]
PyStr(s) == [ty |-> "str", v |-> s]
PyInt(n) == [ty |-> "int", v |-> <<n>>]
PyList(xs) == [ty |-> "list", v |-> xs]
PyDate(d) == [ty |-> "date", v |-> d]

\* The outcome of a function: a returned value, or a raised exception with
\* the source line that raises it.
Return(x) == [exc |-> "none", line |-> 0, val |-> x]
Raise(e, l) == [exc |-> e, line |-> l, val |-> <<>>]

RECURSIVE DigitsVal(_)
DigitsVal(ds) ==
    IF ds = <<>> THEN 0
    ELSE DigitsVal(SubSeq(ds, 1, Len(ds) - 1)) * 10 + ds[Len(ds)]

IsLeap(y) == (y % 4 = 0 /\ y % 100 # 0) \/ y % 400 = 0

DaysInMonth(y, m) ==
    IF m = 2 THEN (IF IsLeap(y) THEN 29 ELSE 28)
    ELSE IF m \in {4, 6, 9, 11} THEN 30 ELSE 31

\* datetime.date.fromisoformat on a string of digit groups joined by "-":
\* it accepts exactly YYYY-MM-DD naming a calendar date.
fromisoformat_ok(txt) ==
    /\ Len(txt) = 3
    /\ Len(txt[1]) = 4 /\ Len(txt[2]) = 2 /\ Len(txt[3]) = 2
    /\ LET y == DigitsVal(txt[1])
           m == DigitsVal(txt[2])
           d == DigitsVal(txt[3])
       IN  y >= 1 /\ m \in 1..12 /\ d >= 1 /\ d <= DaysInMonth(y, m)

fromisoformat(txt) == <<DigitsVal(txt[1]), DigitsVal(txt[2]), DigitsVal(txt[3])>>

\* date < date and date <= date
DateLT(a, b) ==
    \/ a[1] < b[1]
    \/ a[1] = b[1] /\ a[2] < b[2]
    \/ a[1] = b[1] /\ a[2] = b[2] /\ a[3] < b[3]

DateLE(a, b) == a = b \/ DateLT(a, b)

\* datetime.date.today(): the day the model runs on.
Today == <<2025, 8, 6>>

---------------------------------------------------------------------------
\* Remote object keys

\* A path segment: a literal prefix, digit groups joined by "-", a suffix.
Lit(s) == [pre |-> s, digits |-> <<>>, suf |-> ""]
DateSeg(g) == [pre |-> "updated_date=", digits |-> g, suf |-> ""]
PartSeg(n) == [pre |-> "part_", digits |-> <<n>>, suf |-> ".gz"]

D0804 == <<<<2, 0, 2, 5>>, <<0, 8>>, <<0, 4>>>>
D0805 == <<<<2, 0, 2, 5>>, <<0, 8>>, <<0, 5>>>>
D0807 == <<<<2, 0, 2, 5>>, <<0, 8>>, <<0, 7>>>>
D1301 == <<<<2, 0, 2, 5>>, <<1, 3>>, <<0, 1>>>>
DUS == <<<<0, 8>>, <<0, 4>>, <<2, 0, 2, 5>>>>

\* The objects a bucket prefix data/{obj_type}/ may hold, in the order
\* list_objects_v2 returns keys (UTF-8 binary order); `tail` is the key after
\* the prefix and `recs` the number of records in the object.
\*   1  data/{t}/MANIFEST
\*   2  data/{t}/README
\*   3  data/{t}/manifest
\*   4  data/{t}/updated_date=2025-08-04/part_000.gz
\*   5  data/{t}/updated_date=2025-08-04/part_001.gz
\*   6  data/{t}/updated_date=2025-08-05/part_000.gz
\*   7  data/{t}/updated_date=2025-08-07/part_000.gz
\*   8  data/{t}/updated_date=2025-13-01/part_000.gz
Objects ==
    << [tail |-> <<Lit("MANIFEST")>>, recs |-> 0],
       [tail |-> <<Lit("README")>>, recs |-> 0],
       [tail |-> <<Lit("manifest")>>, recs |-> 0],
       [tail |-> <<DateSeg(D0804), PartSeg(<<0, 0, 0>>)>>, recs |-> 2],
       [tail |-> <<DateSeg(D0804), PartSeg(<<0, 0, 1>>)>>, recs |-> 1],
       [tail |-> <<DateSeg(D0805), PartSeg(<<0, 0, 0>>)>>, recs |-> 3],
       [tail |-> <<DateSeg(D0807), PartSeg(<<0, 0, 0>>)>>, recs |-> 1],
       [tail |-> <<DateSeg(D1301), PartSeg(<<0, 0, 0>>)>>, recs |-> 1] >>

ObjectIds == 1..Len(Objects)

\* The listings: the prefix holds any of the objects.
Listings == SUBSET ObjectIds

\* The keys of a listing in the order the paginator yields them.
RECURSIVE ListObjects(_)
ListObjects(L) ==
    IF L = {} THEN <<>>
    ELSE LET i == CHOOSE x \in L : \A y \in L : x <= y
         IN  <<i>> \o ListObjects(L \ {i})

\* obj["Key"] of object i under Prefix=f"data/{obj_type}/"
Key(obj_type, i) == <<Lit("data"), Lit(obj_type)>> \o Objects[i].tail

\* str.lower() on the literals that occur
Lower(s) ==
    CASE s = "MANIFEST" -> "manifest"
      [] s = "README" -> "readme"
      [] OTHER -> s

\* key.split("/")[-1].lower() == "manifest"
is_manifest(key) ==
    LET last == key[Len(key)]
    IN  last.digits = <<>> /\ last.suf = "" /\ Lower(last.pre) = "manifest"

\* re.search(r"(updated_date=([0-9]+-[0-9]+-[0-9]+))"): the leftmost segment
\* that holds updated_date= followed by three non-empty digit groups.
DateMatch(seg) ==
    /\ seg.pre = "updated_date="
    /\ Len(seg.digits) >= 3
    /\ \A j \in 1..3 : Len(seg.digits[j]) >= 1

extract_date(key) ==
    IF \E j \in 1..Len(key) : DateMatch(key[j])
    THEN LET j == CHOOSE x \in 1..Len(key) :
                     DateMatch(key[x]) /\ \A y \in 1..(x - 1) : ~DateMatch(key[y])
         IN  SubSeq(key[j].digits, 1, 3)
    ELSE <<>>

check_date_fmt(txt) == fromisoformat_ok(txt)

\* __get_start_date: the scan of the listing from key number i on.
RECURSIVE start_date_scan(_, _, _)
start_date_scan(obj_type, keys, i) ==
    IF i > Len(keys) THEN Return(PyNone)
    ELSE LET key == Key(obj_type, keys[i])
             dat == extract_date(key)
         IN  IF is_manifest(key) THEN start_date_scan(obj_type, keys, i + 1)
             ELSE IF dat = <<>> THEN start_date_scan(obj_type, keys, i + 1)
             ELSE IF ~fromisoformat_ok(dat) THEN Raise("ValueError", 96)
             ELSE IF DateLT(fromisoformat(dat), Today) THEN Return(PyStr(dat))
             ELSE start_date_scan(obj_type, keys, i + 1)

\* self.__obj_type is read by __get_start_date (line 89) and no statement of
\* the class assigns it: the attribute does not exist.
HasObjTypeAttr == FALSE

\* The value the attribute would hold: the entity type of the call.
get_start_date(obj_type, L) ==
    IF ~HasObjTypeAttr THEN Raise("AttributeError", 89)
    ELSE start_date_scan(obj_type, ListObjects(L), 1)

\* __get_files: the loop over the listing from key number i on, file_list
\* being `acc`.
RECURSIVE files_scan(_, _, _, _, _, _)
files_scan(obj_type, lo, hi, keys, i, acc) ==
    IF i > Len(keys) THEN Return(acc)
    ELSE LET key == Key(obj_type, keys[i])
             dat == extract_date(key)
         IN  IF is_manifest(key)
             THEN files_scan(obj_type, lo, hi, keys, i + 1, acc)
             ELSE IF ~fromisoformat_ok(dat) THEN Raise("ValueError", 124)
             ELSE IF DateLE(lo, fromisoformat(dat)) /\ DateLE(fromisoformat(dat), hi)
             THEN files_scan(obj_type, lo, hi, keys, i + 1, Append(acc, keys[i]))
             ELSE files_scan(obj_type, lo, hi, keys, i + 1, acc)

\* fromisoformat of an argument that may not be a string, raising at `line`
ParseArg(x, line) ==
    IF x.ty # "str" THEN Raise("TypeError", line)
    ELSE IF ~fromisoformat_ok(x.v) THEN Raise("ValueError", line)
    ELSE Return(fromisoformat(x.v))

get_files(obj_type, start_date, end_date, L) ==
    LET s == ParseArg(start_date, 114)
        e == ParseArg(end_date, 115)
    IN  IF s.exc # "none" THEN s
        ELSE IF e.exc # "none" THEN e
        ELSE files_scan(obj_type, s.val, e.val, ListObjects(L), 1, <<>>)


---------------------------------------------------------------------------
\* load_table: arguments, validation, defaults, file selection

accepted_types ==
    {"works", "authors", "sources", "institutions", "topics", "keywords",
     "publishers", "funders", "geo"}

\* __get_schema: WORKS_SCHEMA for "works"; the function falls off its end,
\* returning None, for every other type.
get_schema(obj_type) == IF obj_type = "works" THEN "WORKS_SCHEMA" ELSE "None"

AllInstancesOf(xs, ty) == \A j \in 1..Len(xs) : xs[j].ty = ty

\* ValidationError without the format check of end_date (lines 227-228).
ValidationError_NoEndFormat(a) ==
    IF a.obj_type.ty # "str" THEN Raise("AssertionError", 195)
    ELSE IF a.obj_type.v[1] \notin accepted_types THEN Raise("AssertionError", 211)
    ELSE IF a.start_date # PyNone /\ a.start_date.ty # "str" THEN Raise("ValueError", 216)
    ELSE IF a.end_date # PyNone /\ a.end_date.ty # "str" THEN Raise("ValueError", 220)
    ELSE IF a.start_date # PyNone /\ ~check_date_fmt(a.start_date.v)
         THEN Raise("ValueError", 225)
    ELSE IF a.parts # PyNone /\ a.parts.ty # "list" THEN Raise("ValueError", 231)
    ELSE IF a.parts # PyNone /\ ~AllInstancesOf(a.parts.v, "int")
         THEN Raise("ValueError", 236)
    ELSE IF a.cols # PyNone /\ a.cols.ty # "list" THEN Raise("ValueError", 239)
    ELSE IF a.cols # PyNone /\ ~AllInstancesOf(a.cols.v, "str")
         THEN Raise("ValueError", 244)
    ELSE IF a.limit # PyNone /\ a.limit.ty # "int" THEN Raise("ValueError", 247)
    ELSE Return(<<>>)

\* Lines 195-249: the first check that fails raises.
ValidationError(a) ==
    IF a.obj_type.ty # "str" THEN Raise("AssertionError", 195)
    ELSE IF a.obj_type.v[1] \notin accepted_types THEN Raise("AssertionError", 211)
    ELSE IF a.start_date # PyNone /\ a.start_date.ty # "str" THEN Raise("ValueError", 216)
    ELSE IF a.end_date # PyNone /\ a.end_date.ty # "str" THEN Raise("ValueError", 220)
    ELSE IF a.start_date # PyNone /\ ~check_date_fmt(a.start_date.v)
         THEN Raise("ValueError", 225)
    ELSE IF a.end_date # PyNone /\ ~check_date_fmt(a.end_date.v)
         THEN Raise("ValueError", 228)
    ELSE IF a.parts # PyNone /\ a.parts.ty # "list" THEN Raise("ValueError", 231)
    ELSE IF a.parts # PyNone /\ ~AllInstancesOf(a.parts.v, "int")
         THEN Raise("ValueError", 236)
    ELSE IF a.cols # PyNone /\ a.cols.ty # "list" THEN Raise("ValueError", 239)
    ELSE IF a.cols # PyNone /\ ~AllInstancesOf(a.cols.v, "str")
         THEN Raise("ValueError", 244)
    ELSE IF a.limit # PyNone /\ a.limit.ty # "int" THEN Raise("ValueError", 247)
    ELSE Return(<<>>)

\* int(f.split("/")[-1].replace("part_", "").replace(".gz", "")): what is left
\* of the last segment must be one group of digits.
part_ok(key) ==
    LET last == key[Len(key)]
    IN  /\ last.pre \in {"part_", ""}
        /\ last.suf \in {".gz", ""}
        /\ Len(last.digits) = 1
        /\ Len(last.digits[1]) >= 1

part_int(key) == DigitsVal(key[Len(key)].digits[1])

\* Lines 157-163: the filter on the part numbers, over files[i..].
RECURSIVE parts_scan(_, _, _, _, _)
parts_scan(obj_type, parts, files, i, acc) ==
    IF i > Len(files) THEN Return(acc)
    ELSE LET key == Key(obj_type, files[i])
         IN  IF ~part_ok(key) THEN Raise("ValueError", 161)
             ELSE IF \E j \in 1..Len(parts.v) : parts.v[j].v[1] = part_int(key)
             THEN parts_scan(obj_type, parts, files, i + 1, Append(acc, files[i]))
             ELSE parts_scan(obj_type, parts, files, i + 1, acc)

\* What a call that passed validation does up to the submit loop (lines
\* 251-165) against listing L: the staging directory is made, the defaults
\* are resolved, the files are selected.  `net` tells whether a remote
\* request was issued.
Prepare(a, L) ==
    LET t == a.obj_type.v[1]
        base == [exc |-> "none", line |-> 0, mkdir |-> TRUE, net |-> FALSE,
                 obj_type |-> t, limit |-> a.limit, files |-> <<>>]
        sd == IF a.start_date = PyNone THEN get_start_date(t, L)
              ELSE Return(a.start_date)
        ed == IF a.end_date = PyNone THEN PyDate(Today) ELSE a.end_date
    IN  IF sd.exc # "none"
        THEN [base EXCEPT !.exc = sd.exc, !.line = sd.line, !.net = sd.line > 89]
        ELSE LET gf == get_files(t, sd.val, ed, L)
             IN  IF gf.exc # "none"
                 THEN [base EXCEPT !.exc = gf.exc, !.line = gf.line,
                                   !.net = (a.start_date = PyNone) \/ gf.line > 115]
                 ELSE LET pf == IF a.parts = PyNone THEN gf
                                ELSE parts_scan(t, a.parts, gf.val, 1, <<>>)
                      IN  IF pf.exc # "none"
                          THEN [base EXCEPT !.exc = pf.exc, !.line = pf.line,
                                            !.net = TRUE]
                          ELSE [base EXCEPT !.files = pf.val, !.net = TRUE]

\* A call rejected by validation: nothing is done.
Rejected(err) ==
    [exc |-> err.exc, line |-> err.line, mkdir |-> FALSE, net |-> FALSE,
     obj_type |-> "", limit |-> PyNone, files |-> <<>>]

\* The arguments of the calls.
GoodArgs ==
    [obj_type : {PyStr(<<"works">>), PyStr(<<"authors">>)},
     start_date : {PyNone, PyStr(D0804)},
     end_date : {PyNone, PyStr(D0804), PyStr(D0805)},
     parts : {PyNone, PyList(<<PyInt(0)>>)},
     cols : {PyNone, PyList(<<PyStr(<<"id">>)>>)},
     limit : {PyNone, PyInt(1)}]

BaseArgs ==
    { [obj_type |-> PyStr(<<"works">>), start_date |-> PyNone, end_date |-> PyNone,
       parts |-> PyNone, cols |-> PyNone, limit |-> PyNone],
      [obj_type |-> PyStr(<<"authors">>), start_date |-> PyStr(D0804),
       end_date |-> PyStr(D0805), parts |-> PyList(<<PyInt(0)>>),
       cols |-> PyList(<<PyStr(<<"id">>)>>), limit |-> PyInt(1)] }

BadArgs ==
    UNION { { [b EXCEPT !.obj_type = PyStr(<<"bogus">>)],
              [b EXCEPT !.obj_type = PyInt(7)],
              [b EXCEPT !.start_date = PyInt(20250804)],
              [b EXCEPT !.start_date = PyStr(DUS)],
              [b EXCEPT !.end_date = PyInt(20250805)],
              [b EXCEPT !.end_date = PyStr(DUS)],
              [b EXCEPT !.parts = PyStr(<<"0">>)],
              [b EXCEPT !.parts = PyList(<<PyStr(<<"0">>)>>)],
              [b EXCEPT !.cols = PyStr(<<"id">>)],
              [b EXCEPT !.cols = PyList(<<PyInt(1)>>)],
              [b EXCEPT !.limit = PyStr(<<"1">>)],
              [b EXCEPT !.obj_type = PyStr(<<"bogus">>), !.limit = PyStr(<<"1">>)] }
            : b \in BaseArgs }

CallArgs == GoodArgs \cup BadArgs

\* What load_table called with arguments a may do up to the submit loop: the
\* checks of lines 195-249 come first, and a call they reject never reaches
\* the listing.
CallOutcomesOf(a) ==
    LET err == ValidationError(a)
    IN  IF err.exc # "none" THEN {Rejected(err)}
        ELSE {Prepare(a, L) : L \in Listings}

CallOutcomes == UNION {CallOutcomesOf(a) : a \in CallArgs}

---------------------------------------------------------------------------
\* The parser instance, its staging directory and its connection

VARIABLES
    persist_path,    \* OpenAlexParser(persist_path=...)
    done_event,      \* the module's Event, set by handle_sigint
    sigint_frame,    \* handle_sigint's frame: where the main thread was when
                     \* the flag was first set
    tables,          \* the connection's tables: name -> row count
    staging_exists,  \* whether download_dir exists
    staging,         \* the files of download_dir
    sql_log,         \* the statements given to conn.execute (line 296)
    calls,           \* load_table calls made so far
    pc,              \* where the main thread is
    result,          \* how the last load_table call ended
    net_used,        \* whether the last load_table call issued a remote request
    obj_type,        \* load_table's locals
    limit,
    files,
    task,            \* the state of the download of files[i]
    table_exists,
    catalog          \* the last direct query of the catalog functions

store == <<persist_path, tables, staging_exists, staging, sql_log>>
frame == <<obj_type, limit, files, task, table_exists>>
vars == <<persist_path, done_event, sigint_frame, tables, staging_exists, staging,
          sql_log, calls, pc, result, net_used, obj_type, limit, files, task,
          table_exists, catalog>>

NoQuery == [op |-> "none"]
NoFrame == [call |-> 0, phase |-> "none"]
Returned == [exc |-> "none", line |-> 0]

Init ==
    /\ persist_path \in {PyNone, PyStr(<<"db/oa.db">>)}
    /\ done_event = FALSE
    /\ sigint_frame = NoFrame
    /\ tables = <<>>
    /\ staging_exists = FALSE
    /\ staging = {}
    /\ sql_log = <<>>
    /\ calls = 0
    /\ pc = "idle"
    /\ result = Returned
    /\ net_used = FALSE
    /\ obj_type = ""
    /\ limit = PyNone
    /\ files = <<>>
    /\ task = <<>>
    /\ table_exists = FALSE
    /\ catalog = NoQuery

\* The locals of a call that ended.
PopFrame ==
    /\ obj_type' = ""
    /\ limit' = PyNone
    /\ files' = <<>>
    /\ task' = <<>>
    /\ table_exists' = FALSE

\* The phase of load_table the main thread is in.
Phase(p) ==
    CASE p = "idle" -> "idle"
      [] p = "submit" -> "download"
      [] OTHER -> "ingest"

\* handle_sigint (lines 34-35), at any moment.
handle_sigint ==
    /\ done_event' = TRUE
    /\ sigint_frame' = IF done_event THEN sigint_frame
                       ELSE [call |-> calls, phase |-> Phase(pc)]
    /\ UNCHANGED <<store, calls, pc, result, net_used, frame, catalog>>

\* load_table up to the submit loop (lines 195-165), ending as outcome o.
Begin(o) ==
    /\ pc = "idle"
    /\ calls < MaxCalls
    /\ calls' = calls + 1
    /\ net_used' = o.net
    /\ staging_exists' = (staging_exists \/ o.mkdir)
    /\ IF o.exc # "none"
       THEN /\ result' = [exc |-> o.exc, line |-> o.line]
            /\ pc' = "idle"
            /\ UNCHANGED frame
       ELSE /\ result' = Returned
            /\ pc' = "submit"
            /\ obj_type' = o.obj_type
            /\ limit' = o.limit
            /\ files' = o.files
            /\ task' = [i \in 1..Len(o.files) |-> "new"]
            /\ table_exists' = FALSE
    /\ UNCHANGED <<persist_path, tables, staging, sql_log, done_event,
                   sigint_frame, catalog>>

\* load_table called with arguments a.
load_table(a) == \E o \in CallOutcomesOf(a) : Begin(o)

\* Some call of load_table: the outcomes are those of load_table(a) over
\* the arguments and the listings.
LoadTable == \E o \in CallOutcomes : Begin(o)

\* "_".join(key.split("/")[-2:])
StagedName(key) == <<key[Len(key) - 1], key[Len(key)]>>

Terminal == {"skipped", "done", "failed"}

NewFiles == {i \in DOMAIN task : task[i] = "new"}

\* One turn of the loop of lines 169-182 on the next file: head_object
\* answers and the download is submitted, or it raises and the error is
\* logged.
Submit ==
    /\ pc = "submit"
    /\ NewFiles # {}
    /\ LET i == CHOOSE x \in NewFiles : \A y \in NewFiles : x <= y
       IN  \E head_ok \in BOOLEAN :
               task' = [task EXCEPT ![i] = IF head_ok THEN "submitted" ELSE "skipped"]
    /\ UNCHANGED <<store, done_event, sigint_frame, calls, pc, result, net_used,
                   obj_type, limit, files, table_exists, catalog>>

\* The file a finished download leaves in the staging directory.
Staged(i) ==
    [name |-> StagedName(Key(obj_type, files[i])), call |-> calls,
     recs |-> Objects[files[i]].recs]

\* __copy_data (lines 129-143), run by a worker of the pool, ends: the object
\* is in the staging directory, or head_object or download_file raised and
\* the future holds the exception.
copy_data(i) ==
    /\ task[i] = "submitted"
    /\ \E ok \in BOOLEAN :
          /\ task' = [task EXCEPT ![i] = IF ok THEN "done" ELSE "failed"]
          /\ staging' = IF ok
                        THEN {f \in staging : f.name # Staged(i).name} \cup {Staged(i)}
                        ELSE staging
    /\ UNCHANGED <<persist_path, tables, staging_exists, sql_log, done_event,
                   sigint_frame, calls, pc, result, net_used, obj_type, limit, files,
                   table_exists, catalog>>

\* Waiting for the first download only (return_when=FIRST_COMPLETED, no join).
AllCompleted_First == task = <<>> \/ \E i \in DOMAIN task : task[i] \in Terminal

\* ThreadPoolExecutor.__exit__ (shutdown(wait=True)) and
\* wait(futures, return_when=ALL_COMPLETED): every submitted download ended.
AllCompleted == \A i \in DOMAIN task : task[i] \in Terminal

\* The end of the with-block of line 168 and line 183; then lines 273-280:
\* the select clause and the table-exists query.
download_files_return ==
    /\ pc = "submit"
    /\ NewFiles = {}
    /\ AllCompleted
    /\ table_exists' = (obj_type \in DOMAIN tables)
    /\ pc' = "execute"
    /\ UNCHANGED <<store, done_event, sigint_frame, calls, result, net_used,
                   obj_type, limit, files, task, catalog>>

RECURSIVE SumRecs(_)
SumRecs(S) ==
    IF S = {} THEN 0
    ELSE LET f == CHOOSE x \in S : TRUE IN f.recs + SumRecs(S \ {f})

\* The rows of SELECT ... FROM read_ndjson_auto('{download_dir}/*'){limit}:
\* the records of every file of the staging directory, cut to the limit.
SelectRows(stg, lim) ==
    LET n == SumRecs(stg)
    IN  IF lim = PyNone THEN n
        ELSE IF lim.v[1] < n THEN lim.v[1] ELSE n

\* Lines 282-294: the statement built for the call.
SqlQuery ==
    [kind |-> IF table_exists THEN "INSERT"
              ELSE IF persist_path = PyNone THEN "CREATE TEMPORARY TABLE"
              ELSE "CREATE TABLE",
     table |-> obj_type,
     schema |-> get_schema(obj_type)]

\* TablesAfter with the INSERT replacing the table's rows.
TablesAfter_Replace(tbls, q, rows) == (q.table :> rows) @@ tbls

\* The connection's tables after a statement that succeeded.
TablesAfter(tbls, q, rows) ==
    IF q.kind = "INSERT" THEN [tbls EXCEPT ![q.table] = @ + rows]
    ELSE (q.table :> rows) @@ tbls

\* The engine's answers to a statement: it may fail on any; it fails on a
\* CREATE of a table that exists, on an INSERT into one that does not, and
\* when the glob '{download_dir}/*' of the select clause matches no file.
EngineAnswers(tbls, q, stg) ==
    IF stg = {} THEN {FALSE}
    ELSE IF (q.kind = "INSERT") = (q.table \in DOMAIN tbls) THEN BOOLEAN
    ELSE {FALSE}

\* PcAfterExecute with the rmtree of line 298 run whatever conn.execute did.
PcAfterExecute_Finally(ok) == "rmtree"

\* Where load_table goes on after conn.execute: to line 298, or out of the
\* call with the engine's exception.
PcAfterExecute(ok) == IF ok THEN "rmtree" ELSE "idle"

\* Line 296.
Execute ==
    /\ pc = "execute"
    /\ \E ok \in EngineAnswers(tables, SqlQuery, staging) :
          LET rows == SelectRows(staging, limit)
          IN  /\ sql_log' = Append(sql_log, [kind |-> SqlQuery.kind,
                                             table |-> SqlQuery.table,
                                             schema |-> SqlQuery.schema,
                                             rows |-> rows, ok |-> ok])
              /\ tables' = IF ok THEN TablesAfter(tables, SqlQuery, rows) ELSE tables
              /\ pc' = PcAfterExecute(ok)
              /\ result' = IF ok THEN result
                           ELSE [exc |-> "duckdb.Error", line |-> 296]
              /\ IF ok THEN UNCHANGED frame ELSE PopFrame
    /\ UNCHANGED <<persist_path, staging_exists, staging, done_event, sigint_frame,
                   calls, net_used, catalog>>

\* Line 298: shutil.rmtree(download_dir), and the call returns.
Rmtree ==
    /\ pc = "rmtree"
    /\ staging' = {}
    /\ staging_exists' = FALSE
    /\ pc' = "idle"
    /\ PopFrame
    /\ UNCHANGED <<persist_path, tables, sql_log, done_event, sigint_frame, calls,
                   result, net_used, catalog>>

Next ==
    \/ LoadTable
    \/ Submit
    \/ \E i \in DOMAIN task : copy_data(i)
    \/ download_files_return
    \/ Execute
    \/ Rmtree
    \/ handle_sigint

Spec == Init /\ [][Next]_vars

\* The program without the interrupt signal.
LoadNext ==
    \/ LoadTable
    \/ Submit
    \/ \E i \in DOMAIN task : copy_data(i)
    \/ download_files_return
    \/ Execute
    \/ Rmtree

LoadSpec == Init /\ [][LoadNext]_vars

---------------------------------------------------------------------------
\* The catalog functions called on their own

QueryDates == {PyStr(D0804), PyStr(D0805), PyStr(D0807)}

QueryFiles ==
    /\ catalog = NoQuery
    /\ \E t \in {"works", "authors"}, L \in Listings, s \in QueryDates, e \in QueryDates :
          catalog' = [op |-> "get_files", obj_type |-> t, listing |-> L,
                      start_date |-> s, end_date |-> e,
                      out |-> get_files(t, s, e, L)]
    /\ UNCHANGED <<store, done_event, sigint_frame, calls, pc, result, net_used, frame>>

QueryStartDate ==
    /\ catalog = NoQuery
    /\ \E t \in {"works", "authors"}, L \in Listings :
          catalog' = [op |-> "get_start_date", obj_type |-> t, listing |-> L,
                      out |-> get_start_date(t, L)]
    /\ UNCHANGED <<store, done_event, sigint_frame, calls, pc, result, net_used, frame>>

CatalogNext == QueryFiles \/ QueryStartDate

CatalogSpec == Init /\ [][CatalogNext]_vars

---------------------------------------------------------------------------
\* The claims

Last(q) == q[Len(q)]

RECURSIVE SumRows(_)
SumRows(E) == IF E = <<>> THEN 0 ELSE E[1].rows + SumRows(Tail(E))

IsOkLoad(e, t) == e.ok /\ e.table = t

\* The statements on table t that succeeded, in order.
OkLoads(t) ==
    LET Keep(e) == IsOkLoad(e, t) IN SelectSeq(sql_log, Keep)

\* C1: the table named after an entity type exists exactly when a load of
\* the type succeeded; the first such load created it, every later one was an
\* INSERT, and its row count is the sum of the rows the loads ingested.
Thm_C1 ==
    \A t \in accepted_types :
        LET E == OkLoads(t)
        IN  /\ (t \in DOMAIN tables) <=> (Len(E) > 0)
            /\ Len(E) > 0 =>
                  /\ E[1].kind \in {"CREATE TABLE", "CREATE TEMPORARY TABLE"}
                  /\ \A j \in 2..Len(E) : E[j].kind = "INSERT"
                  /\ tables[t] = SumRows(E)

\* A second successful load of one type appended rows to the table.
Wit_C1 ==
    \E t \in accepted_types :
        /\ Len(OkLoads(t)) >= 2
        /\ OkLoads(t)[1].rows > 0
        /\ OkLoads(t)[2].rows > 0

DonePart == {i \in DOMAIN task : task[i] = "done"}

\* C3: when the ingest statement runs, the staging directory holds exactly
\* the selected files whose download did not fail, and no exception was
\* raised because of the failed ones.
Orig_C3 ==
    pc = "execute" =>
        /\ result.exc = "none"
        /\ {f.name : f \in staging} = {Staged(i).name : i \in DonePart}

\* The arguments the claim calls invalid, stated on their own.
IsIsoDateStr(x) == x.ty = "str" /\ fromisoformat_ok(x.v)

ViolatesValidation(a) ==
    \/ a.obj_type.ty # "str"
    \/ a.obj_type.v[1] \notin accepted_types
    \/ a.start_date.ty # "NoneType" /\ ~IsIsoDateStr(a.start_date)
    \/ a.end_date.ty # "NoneType" /\ ~IsIsoDateStr(a.end_date)
    \/ a.parts.ty # "NoneType"
         /\ ~(a.parts.ty = "list" /\ \A j \in 1..Len(a.parts.v) : a.parts.v[j].ty = "int")
    \/ a.cols.ty # "NoneType"
         /\ ~(a.cols.ty = "list" /\ \A j \in 1..Len(a.cols.v) : a.cols.v[j].ty = "str")
    \/ a.limit.ty \notin {"NoneType", "int"}

\* The arguments that violate validation.
ViolatingArgs == {a \in CallArgs : ViolatesValidation(a)}

\* C4: a load_table call whose arguments violate validation raises, having
\* issued no remote request, with the staging directory, its files, the
\* tables and the statements executed as they were.
Thm_C4 ==
    [][calls' # calls =>
          \A a \in ViolatingArgs :
              load_table(a) =>
                  /\ pc' = "idle"
                  /\ result'.exc \in {"AssertionError", "ValueError"}
                  /\ result'.line <= 249
                  /\ net_used' = FALSE
                  /\ UNCHANGED <<staging_exists, staging, tables, sql_log>>]_vars

\* A call was rejected by validation on a parser that holds a table, and
\* made no staging directory.
Wit_C4 ==
    /\ pc = "idle"
    /\ result.exc \in {"AssertionError", "ValueError"}
    /\ result.line <= 249
    /\ DOMAIN tables # {}
    /\ ~staging_exists

\* The flag was set while the call in progress was in its download phase.
Cancelled ==
    /\ pc # "idle"
    /\ sigint_frame.call = calls
    /\ sigint_frame.phase = "download"

\* C5: once the flag is set in the download phase of a call, the call
\* submits no further download, does not go on to the ingest step and leaves
\* the tables as they were.
Orig_C5 ==
    [][Cancelled =>
          /\ \A i \in DOMAIN task : task[i] = "new" => task'[i] # "submitted"
          /\ pc' # "execute"
          /\ tables' = tables]_vars

\* C7: the files the ingest statement reads are exactly those the call in
\* progress downloaded: none was staged by an earlier call.
Orig_C7 ==
    pc = "execute" => staging = {Staged(i) : i \in DonePart}

\* C8: the staging directory is deleted only by the rmtree that follows a
\* statement that succeeded; a statement that fails ends the call with the
\* engine's error and leaves the directory and its files in place; a call
\* that returns leaves no staging directory.
Thm_C8 ==
    [][/\ (staging_exists /\ ~staging_exists') =>
             (pc = "rmtree" /\ sql_log # <<>> /\ Last(sql_log).ok)
       /\ (pc = "execute" /\ pc' # "execute" /\ ~Last(sql_log').ok) =>
             /\ pc' = "idle"
             /\ result' = [exc |-> "duckdb.Error", line |-> 296]
             /\ staging_exists'
             /\ staging' = staging
       /\ (pc # "idle" /\ pc' = "idle" /\ result'.exc = "none") =>
             (~staging_exists' /\ Last(sql_log').ok)]_vars

\* A load succeeded and its staging directory was deleted; the next load's
\* statement failed and its files are still staged.
Wit_C8 ==
    /\ pc = "idle"
    /\ result = [exc |-> "duckdb.Error", line |-> 296]
    /\ Len(sql_log) = 2
    /\ sql_log[1].ok
    /\ staging_exists
    /\ staging # {}

\* C9: no statement is executed with the schema of a type that has none.
Orig_C9 == \A j \in DOMAIN sql_log : sql_log[j].schema # "None"

\* C10: the table-exists check is done, the statement run and the staging
\* directory deleted only when every download of the call has ended.
Thm_C10 ==
    pc \in {"execute", "rmtree"} => \A i \in DOMAIN task : task[i] \in Terminal

\* The statement is about to run after a batch of three downloads of which
\* one succeeded, one failed and one was not submitted.
Wit_C10 ==
    /\ pc = "execute"
    /\ \E i, j, k \in DOMAIN task :
          task[i] = "done" /\ task[j] = "failed" /\ task[k] = "skipped"

\* The keys the claim selects: not a manifest, dated, the date in range.
ExpectedFiles(t, lo, hi, L) ==
    {i \in L :
        /\ ~is_manifest(Key(t, i))
        /\ fromisoformat_ok(extract_date(Key(t, i)))
        /\ DateLE(fromisoformat(lo.v), fromisoformat(extract_date(Key(t, i))))
        /\ DateLE(fromisoformat(extract_date(Key(t, i))), fromisoformat(hi.v))}

\* C2: for start_date <= end_date, __get_files returns exactly the listed
\* keys that are no manifest and whose date lies in the range, and does not
\* fail on a key with no date or an invalid one.
Orig_C2 ==
    (/\ catalog.op = "get_files"
     /\ DateLE(fromisoformat(catalog.start_date.v), fromisoformat(catalog.end_date.v)))
    => /\ catalog.out.exc = "none"
       /\ {catalog.out.val[j] : j \in 1..Len(catalog.out.val)}
            = ExpectedFiles(catalog.obj_type, catalog.start_date,
                            catalog.end_date, catalog.listing)

\* The dates the claim takes the minimum of.
PastDates(t, L) ==
    {extract_date(Key(t, i)) :
        i \in {x \in L : /\ ~is_manifest(Key(t, x))
                         /\ fromisoformat_ok(extract_date(Key(t, x)))
                         /\ DateLT(fromisoformat(extract_date(Key(t, x))), Today)}}

\* C6: __get_start_date returns the earliest listed date before today, and
\* None when there is none.
Orig_C6 ==
    catalog.op = "get_start_date" =>
        LET P == PastDates(catalog.obj_type, catalog.listing)
        IN  /\ catalog.out.exc = "none"
            /\ IF P = {} THEN catalog.out.val = PyNone
               ELSE /\ catalog.out.val.ty = "str"
                    /\ catalog.out.val.v \in P
                    /\ \A d \in P : DateLE(fromisoformat(catalog.out.val.v),
                                            fromisoformat(d))

====
